---------------------------- MODULE Spec2Model ----------------------------
(***************************************************************************)
(* A model of the Figma prompt generator of src/scr/code.ts.               *)
(*                                                                         *)
(* Representation.                                                         *)
(*   - A JavaScript string is a TLA+ string, except that a multi-line      *)
(*     text is kept as the sequence of its lines (the string split at      *)
(*     "\n"); the empty string is the one-line text <<"">>.                *)
(*   - A number with at most two decimals is an integer count of           *)
(*     hundredths (12.5 is 1250); an opacity or colour channel (0..1) is   *)
(*     an integer count of thousandths (0.5 is 500).                       *)
(*   - An optional or mixed property is a tagged record: [tag |-> "num",   *)
(*     val |-> v], [tag |-> "mixed"] (figma.mixed) or [tag |-> "absent"]   *)
(*     (undefined, or the property is not on the node).                    *)
(*   - The node tree is flat: node i's children are the nodes whose        *)
(*     parent is i, in increasing order of index (appendChild order);      *)
(*     parent 0 marks a node of the selection itself.                      *)
(***************************************************************************)
EXTENDS Integers, Sequences, FiniteSets, TLC

VARIABLES
    nodes,      \* the selected nodes and their descendants (flat tree)
    selNull,    \* TRUE when figma.currentPage.selection is null/undefined
    pc,         \* "idle": waiting for a message; "posted": a message was handled
    msg,        \* the message last handled by figma.ui.onmessage
    posted,     \* the messages posted to the UI while handling msg
    out         \* the last operation applied to a single node, and its result

vars == <<nodes, selNull, pc, msg, posted, out>>

---------------------------------------------------------------------------
(* Bounds of the model. *)

MaxNodes == 3
MaxPaints == 2
MaxNum == 130

---------------------------------------------------------------------------
(* Strings. *)

RECURSIVE Repeat(_, _)
\* " ".repeat(n)
Repeat(s, n) == IF n <= 0 THEN "" ELSE s \o Repeat(s, n - 1)

CharAt(s, i) == SubSeq(s, i, i)

EndsWith(s, t) ==
    /\ Len(s) >= Len(t)
    /\ SubSeq(s, Len(s) - Len(t) + 1, Len(s)) = t

\* The characters the regular expression class \s matches, as far as a string
\* of this language can hold them: space, tab, line feed, form feed, carriage
\* return, and, written as the characters themselves, vertical tab (U+000B),
\* no-break space (U+00A0), ogham space mark (U+1680) and byte order mark
\* (U+FEFF).  The remaining members of \s (U+2000 to U+200A, U+2028, U+2029,
\* U+202F, U+205F and U+3000) cannot be written in a string literal here and
\* are outside the alphabet of the model.
WhiteSpace ==
    {" ", "\t", "\n", "\f", "\r", "", " ", " ", "﻿"}

\* The characters after which ^ matches under the m flag and before which $
\* matches, as far as a string of this language can hold them (U+2028 and
\* U+2029 are outside the alphabet of the model).
LineTerminators == {"\n", "\r"}

\* the regular expression \s*$ matched at the start of a segment that ends at
\* the next line terminator or at the end of the text
IsBlank(line) == \A i \in 1..Len(line) : CharAt(line, i) \in WhiteSpace

\* the number of spaces a line starts with
LeadingSpaces(line) ==
    LET idx == {i \in 0..Len(line) : \A j \in 1..i : CharAt(line, j) = " "}
    IN  CHOOSE i \in idx : \A k \in idx : k <= i

\* a line with its leading spaces removed
Stripped(line) == SubSeq(line, LeadingSpaces(line) + 1, Len(line))

StartsWith(s, t) == Len(s) >= Len(t) /\ SubSeq(s, 1, Len(t)) = t

RECURSIVE JoinWith(_, _)
\* Array.prototype.join over an array of one-line strings
JoinWith(strs, sep) ==
    IF strs = <<>> THEN ""
    ELSE IF Len(strs) = 1 THEN strs[1]
    ELSE strs[1] \o sep \o JoinWith(Tail(strs), sep)

RECURSIVE JoinLines(_)
\* Array.prototype.join("\n") over an array of texts, each kept as its lines
JoinLines(texts) ==
    IF texts = <<>> THEN <<"">>
    ELSE IF Len(texts) = 1 THEN texts[1]
    ELSE texts[1] \o JoinLines(Tail(texts))

\* String(n) of a JavaScript integer
IntToString(n) == IF n < 0 THEN "-" \o ToString(-n) ELSE ToString(n)

\* String(x) of a JavaScript number given in thousandths: 500 is "0.5"
MilliToString(m) ==
    LET a    == IF m < 0 THEN -m ELSE m
        frac == a % 1000
        d1   == frac \div 100
        d2   == (frac \div 10) % 10
        d3   == frac % 10
        digits == IF frac = 0 THEN ""
                  ELSE IF d3 # 0 THEN
                      "." \o ToString(d1) \o ToString(d2) \o ToString(d3)
                  ELSE IF d2 # 0 THEN "." \o ToString(d1) \o ToString(d2)
                  ELSE "." \o ToString(d1)
    IN  (IF m < 0 THEN "-" ELSE "") \o ToString(a \div 1000) \o digits

---------------------------------------------------------------------------
(* Formatting primitives. *)

\* Number.prototype.toFixed(2) of a number given in hundredths
ToFixed2(h) ==
    LET a    == IF h < 0 THEN -h ELSE h
        frac == a % 100
    IN  (IF h < 0 THEN "-" ELSE "") \o ToString(a \div 100) \o "."
            \o (IF frac < 10 THEN "0" ELSE "") \o ToString(frac)

\* String.prototype.replace(/\.00$/, "")
StripDot00(s) == IF EndsWith(s, ".00") THEN SubSeq(s, 1, Len(s) - 3) ELSE s

sliceNum(h) == StripDot00(ToFixed2(h))

\* Math.round of a non-negative quotient a / b (halves round up)
RoundDiv(a, b) == (2 * a + b) \div (2 * b)

\* The opacities, in thousandths of 0 to 1, whose product with 100 in double
\* precision is the double just below a half although the exact product is
\* that half: 0.145 * 100 = 14.499999999999998, 0.285 * 100 =
\* 28.499999999999996, 0.565 * 100 = 56.49999999999999 and 0.575 * 100 =
\* 57.49999999999999.  For every other thousandth Math.round of the double
\* product is the exact rounding.
ProductBelowHalf == {145, 285, 565, 575}

\* nodeOpacity in thousandths of 0 to 1; the result is an integer percentage
nearestOpacity(nodeOpacity) ==
    IF nodeOpacity \in ProductBelowHalf
    THEN RoundDiv(nodeOpacity * 100, 1000) - 1
    ELSE RoundDiv(nodeOpacity * 100, 1000)

\* color channels and opacity in thousandths
rgbaFromRGB(color, opacity) ==
    "rgba(" \o ToString(RoundDiv(color.r * 255, 1000)) \o ", "
            \o ToString(RoundDiv(color.g * 255, 1000)) \o ", "
            \o ToString(RoundDiv(color.b * 255, 1000)) \o ", "
            \o MilliToString(opacity) \o ")"

\* a replace that prefixes every line, blank or not
IndentLineAlways(line, indentLevel) == Repeat(" ", indentLevel) \o line

RECURSIVE IndentLine(_, _)
\* str.replace(/^(?!\s*$)/gm, " ".repeat(indentLevel)) on one of the lines
\* that "\n" delimits: the pattern matches at the start of the line and after
\* every other line terminator in it, wherever the segment that starts there
\* is not blank
IndentLine(line, indentLevel) ==
    LET ends == {i \in 1..Len(line) : CharAt(line, i) \in LineTerminators}
        stop == IF ends = {} THEN Len(line) + 1
                ELSE CHOOSE i \in ends : \A j \in ends : i <= j
        segment == SubSeq(line, 1, stop - 1)
        indented == IF IsBlank(segment) THEN segment
                    ELSE Repeat(" ", indentLevel) \o segment
    IN  IF ends = {} THEN indented
        ELSE indented \o CharAt(line, stop)
                 \o IndentLine(SubSeq(line, stop + 1, Len(line)), indentLevel)

indentString(str, indentLevel) ==
    [i \in 1..Len(str) |-> IndentLine(str[i], indentLevel)]

---------------------------------------------------------------------------
(* Optional and mixed values. *)

Absent == [tag |-> "absent"]
Mixed == [tag |-> "mixed"]
Num(v) == [tag |-> "num", val |-> v]
List(items) == [tag |-> "list", items |-> items]

\* opt || d, for an optional number: undefined and 0 are both falsy
OrElse(opt, d) == IF opt.tag = "num" /\ opt.val # 0 THEN opt.val ELSE d

\* a parameter default (opacity: number = 1): only undefined takes the default
DefaultTo(opt, d) == IF opt.tag = "num" THEN opt.val ELSE d

\* String(x) of a JavaScript number given in hundredths: 150 is "1.5"
CentiToString(h) == MilliToString(h * 10)

---------------------------------------------------------------------------
(* Style extractors.  Each takes a node record. *)

getBorderWidth(node) ==
    IF node.strokeWeight.tag = "num"
    THEN sliceNum(node.strokeWeight.val) \o "px"
    ELSE "0px"

getBorderColor(node) ==
    IF /\ node.strokes.tag = "list"
       /\ Len(node.strokes.items) > 0
       /\ node.strokes.items[1].type = "SOLID"
    THEN rgbaFromRGB(node.strokes.items[1].color,
                     OrElse(node.strokes.items[1].opacity, 1000))
    ELSE "transparent"

getBorderRadius(node) ==
    IF node.cornerRadius.tag = "num"
    THEN sliceNum(node.cornerRadius.val) \o "px"
    ELSE "0px"

shadowText(effect) ==
    sliceNum(effect.offset.x) \o "px " \o sliceNum(effect.offset.y) \o "px "
        \o sliceNum(effect.radius) \o "px "
        \o rgbaFromRGB(effect.color, DefaultTo(effect.opacity, 1000))

getShadow(node) ==
    IF node.effects.tag = "list"
    THEN LET shown == SelectSeq(node.effects.items,
                          LAMBDA e : e.type = "DROP_SHADOW" /\ e.visible)
         IN  [i \in 1..Len(shown) |-> shadowText(shown[i])]
    ELSE <<>>

getPadding(node) ==
    IF node.paddingLeft.tag # "absent"
    THEN sliceNum(OrElse(node.paddingTop, 0)) \o "px "
            \o sliceNum(OrElse(node.paddingRight, 0)) \o "px "
            \o sliceNum(OrElse(node.paddingBottom, 0)) \o "px "
            \o sliceNum(OrElse(node.paddingLeft, 0)) \o "px"
    ELSE "0px"

getBackgroundColor(node) ==
    IF /\ node.fills.tag = "list"
       /\ Len(node.fills.items) > 0
       /\ node.fills.items[1].type = "SOLID"
    THEN rgbaFromRGB(node.fills.items[1].color,
                     OrElse(node.fills.items[1].opacity, 1000))
    ELSE "transparent"

---------------------------------------------------------------------------
(* The node tree. *)

\* the indices of the nodes whose parent is p, in order (node.children);
\* Children(0) is the selection itself
Children(p) ==
    SelectSeq([j \in 1..Len(nodes) |-> j], LAMBDA j : nodes[j].parent = p)

\* String.prototype.toLowerCase over the node types
toLowerCase(type) ==
    CASE type = "RECTANGLE" -> "rectangle"
      [] type = "ELLIPSE" -> "ellipse"
      [] type = "FRAME" -> "frame"
      [] type = "COMPONENT" -> "component"
      [] type = "INSTANCE" -> "instance"
      [] type = "COMPONENT_SET" -> "component_set"
      [] type = "GROUP" -> "group"
      [] type = "SECTION" -> "section"
      [] type = "TEXT" -> "text"
      [] type = "LINE" -> "line"
      [] type = "VECTOR" -> "vector"

\* the optional " (Component Name: <name>)" annotation
componentName(node) ==
    IF node.name # "" THEN " (Component Name: " \o node.name \o ")" ELSE ""

---------------------------------------------------------------------------
(* Node-variant renderers.  Each returns a text, as its lines. *)

generateContainerPrompt(node) ==
    << "- A " \o toLowerCase(node.type) \o componentName(node)
       \o " with dimensions " \o sliceNum(node.width) \o "x"
       \o sliceNum(node.height) \o "px, positioned at (" \o sliceNum(node.x)
       \o "," \o sliceNum(node.y) \o ")px, with background color "
       \o getBackgroundColor(node) \o ", border width " \o getBorderWidth(node)
       \o " color " \o getBorderColor(node) \o ", opacity at "
       \o IntToString(nearestOpacity(OrElse(node.opacity, 1000)))
       \o "%, border radius " \o getBorderRadius(node) \o ", and shadow "
       \o JoinWith(getShadow(node), ", ") \o "." >>

\* the text line without the replace of its line feeds: the characters keep
\* their lines
generateTextPromptUnescaped(node) ==
    LET family == IF node.fontName.tag = "font" THEN node.fontName.family
                  ELSE "Unknown"
        style == IF node.fontName.tag = "font" THEN node.fontName.style
                 ELSE "Unknown"
        fontSize == IF node.fontSize.tag = "num" THEN node.fontSize.val ELSE 0
        lineHeight ==
            IF node.lineHeight.tag = "obj"
            THEN IF node.lineHeight.unit = "AUTO" THEN "auto"
                 ELSE CentiToString(node.lineHeight.value)
                          \o node.lineHeight.unit
            ELSE IF node.lineHeight.tag = "num"
                 THEN sliceNum(node.lineHeight.val)
                 ELSE "auto"
        letterSpacing ==
            IF node.letterSpacing.tag = "obj"
            THEN CentiToString(node.letterSpacing.value)
                     \o node.letterSpacing.unit
            ELSE IF node.letterSpacing.tag = "num"
                 THEN sliceNum(node.letterSpacing.val)
                 ELSE "normal"
        align == IF node.textAlignHorizontal # ""
                 THEN node.textAlignHorizontal ELSE "LEFT"
        c == node.characters
        head == "- Text node" \o componentName(node) \o " with content: \""
        rest == "\", font size " \o sliceNum(fontSize)
                    \o "px, font family " \o family \o ", font style " \o style
                    \o ", alignment " \o align \o ", color "
                    \o getBackgroundColor(node) \o ", opacity at "
                    \o IntToString(nearestOpacity(OrElse(node.opacity, 1000)))
                    \o "%, line height " \o lineHeight
                    \o ", and letter spacing " \o letterSpacing \o "."
    IN  IF Len(c) = 1 THEN << head \o c[1] \o rest >>
        ELSE << head \o c[1] >> \o SubSeq(c, 2, Len(c) - 1)
                 \o << c[Len(c)] \o rest >>

generateTextPrompt(node) ==
    LET textContent == JoinWith(node.characters, "\\n")
        family == IF node.fontName.tag = "font" THEN node.fontName.family
                  ELSE "Unknown"
        style == IF node.fontName.tag = "font" THEN node.fontName.style
                 ELSE "Unknown"
        fontSize == IF node.fontSize.tag = "num" THEN node.fontSize.val ELSE 0
        lineHeight ==
            IF node.lineHeight.tag = "obj"
            THEN IF node.lineHeight.unit = "AUTO" THEN "auto"
                 ELSE CentiToString(node.lineHeight.value)
                          \o node.lineHeight.unit
            ELSE IF node.lineHeight.tag = "num"
                 THEN sliceNum(node.lineHeight.val)
                 ELSE "auto"
        letterSpacing ==
            IF node.letterSpacing.tag = "obj"
            THEN CentiToString(node.letterSpacing.value)
                     \o node.letterSpacing.unit
            ELSE IF node.letterSpacing.tag = "num"
                 THEN sliceNum(node.letterSpacing.val)
                 ELSE "normal"
        align == IF node.textAlignHorizontal # ""
                 THEN node.textAlignHorizontal ELSE "LEFT"
    IN  << "- Text node" \o componentName(node) \o " with content: \""
           \o textContent \o "\", font size " \o sliceNum(fontSize)
           \o "px, font family " \o family \o ", font style " \o style
           \o ", alignment " \o align \o ", color " \o getBackgroundColor(node)
           \o ", opacity at "
           \o IntToString(nearestOpacity(OrElse(node.opacity, 1000)))
           \o "%, line height " \o lineHeight \o ", and letter spacing "
           \o letterSpacing \o "." >>

generateLinePrompt(node) ==
    LET strokeWeight == IF node.strokeWeight.tag = "num"
                        THEN node.strokeWeight.val ELSE 0
        opacity == IF node.opacity.tag # "absent" THEN node.opacity.val
                   ELSE 1000
    IN  << "- A line" \o componentName(node) \o " from (" \o sliceNum(node.x)
           \o "," \o sliceNum(node.y) \o ")px to ("
           \o sliceNum(node.x + node.width) \o ","
           \o sliceNum(node.y + node.height) \o ")px, with stroke width "
           \o sliceNum(strokeWeight) \o "px, color " \o getBorderColor(node)
           \o ", and opacity at " \o IntToString(nearestOpacity(opacity))
           \o "%." >>

generateVectorPrompt(node) ==
    << "- A vector node" \o componentName(node) \o " with dimensions "
       \o sliceNum(node.width) \o "x" \o sliceNum(node.height)
       \o "px, positioned at (" \o sliceNum(node.x) \o "," \o sliceNum(node.y)
       \o ")px." >>

RECURSIVE WidgetGenerator(_)
RECURSIVE generateGroupPrompt(_)
RECURSIVE generateFramePrompt(_)
RECURSIVE generateSectionPrompt(_)

\* the children rendered last to first
childrenPromptsReversed(n) ==
    LET kids == Children(n)
    IN  JoinLines([k \in 1..Len(kids) |->
                      WidgetGenerator(<<kids[Len(kids) + 1 - k]>>)])

\* node.children.map(child => WidgetGenerator([child])).join("\n")
childrenPrompts(n) ==
    LET kids == Children(n)
    IN  JoinLines([k \in 1..Len(kids) |-> WidgetGenerator(<<kids[k]>>)])

\* the group line counting only the visible children
generateGroupPromptVisibleCount(n) ==
    LET node == nodes[n]
        shown == SelectSeq(Children(n), LAMBDA c : nodes[c].visible)
    IN  << "- A group" \o componentName(node) \o " with "
           \o ToString(Len(shown)) \o " children, dimensions "
           \o sliceNum(node.width) \o "x" \o sliceNum(node.height)
           \o "px, positioned at (" \o sliceNum(node.x) \o ","
           \o sliceNum(node.y) \o ")px, with properties:" >>
        \o indentString(childrenPrompts(n), 2)

\* the renderers of the container kinds take the node's index n
generateGroupPrompt(n) ==
    LET node == nodes[n]
    IN  << "- A group" \o componentName(node) \o " with "
           \o ToString(Len(Children(n))) \o " children, dimensions "
           \o sliceNum(node.width) \o "x" \o sliceNum(node.height)
           \o "px, positioned at (" \o sliceNum(node.x) \o ","
           \o sliceNum(node.y) \o ")px, with properties:" >>
        \o indentString(childrenPrompts(n), 2)

generateFramePrompt(n) ==
    LET node == nodes[n]
        layoutInfo ==
            IF node.layoutMode # "NONE"
            THEN "Layout mode: " \o node.layoutMode \o ", Alignment: "
                     \o node.primaryAxisAlignItems \o "/"
                     \o node.counterAxisAlignItems \o ", Padding: "
                     \o getPadding(node)
            ELSE "Layout mode: NONE"
    IN  << "- A " \o toLowerCase(node.type) \o " frame" \o componentName(node)
           \o " with " \o ToString(Len(Children(n)))
           \o " children, dimensions " \o sliceNum(node.width) \o "x"
           \o sliceNum(node.height) \o "px, positioned at ("
           \o sliceNum(node.x) \o "," \o sliceNum(node.y) \o ")px, "
           \o layoutInfo \o ":" >>
        \o indentString(childrenPrompts(n), 2)

generateSectionPrompt(n) ==
    LET node == nodes[n]
    IN  << "- A section node" \o componentName(node) \o " with "
           \o ToString(Len(Children(n))) \o " children, dimensions "
           \o sliceNum(node.width) \o "x" \o sliceNum(node.height)
           \o "px, positioned at (" \o sliceNum(node.x) \o ","
           \o sliceNum(node.y) \o ")px:" >>
        \o indentString(childrenPrompts(n), 2)

\* the switch of WidgetGenerator: the text of one node
renderNode(n) ==
    LET node == nodes[n]
    IN  CASE node.type \in {"RECTANGLE", "ELLIPSE"} ->
                 generateContainerPrompt(node)
          [] node.type = "GROUP" -> generateGroupPrompt(n)
          [] node.type \in {"FRAME", "COMPONENT", "INSTANCE", "COMPONENT_SET"} ->
                 generateFramePrompt(n)
          [] node.type = "TEXT" -> generateTextPrompt(node)
          [] node.type = "LINE" -> generateLinePrompt(node)
          [] node.type = "VECTOR" -> generateVectorPrompt(node)
          [] node.type = "SECTION" -> generateSectionPrompt(n)
          [] OTHER -> << "Unknown node type: " \o node.type >>

\* WidgetGenerator without its filter on node.visible
WidgetGeneratorUnfiltered(sceneNode) ==
    JoinLines([k \in 1..Len(sceneNode) |-> renderNode(sceneNode[k])])

\* sceneNode is a sequence of node indices
WidgetGenerator(sceneNode) ==
    LET shown == SelectSeq(sceneNode, LAMBDA n : nodes[n].visible)
    IN  JoinLines([k \in 1..Len(shown) |-> renderNode(shown[k])])

SupportedTypes ==
    {"RECTANGLE", "ELLIPSE", "LINE", "TEXT", "VECTOR", "GROUP", "FRAME",
     "INSTANCE", "COMPONENT", "COMPONENT_SET", "SECTION"}

\* convertIntoNodes dropping the invisible nodes as well
convertIntoNodesVisible(sceneNode) ==
    SelectSeq(sceneNode,
              LAMBDA n : nodes[n].type \in SupportedTypes /\ nodes[n].visible)

\* map to the node or null, then filter(notEmpty)
convertIntoNodes(sceneNode) ==
    SelectSeq(sceneNode, LAMBDA n : nodes[n].type \in SupportedTypes)

Main(sceneNode) == WidgetGenerator(sceneNode)

---------------------------------------------------------------------------
(* The message handler. *)

\* a + b for texts kept as lines: b's first line continues a's last line
Concat(a, b) ==
    SubSeq(a, 1, Len(a) - 1) \o <<a[Len(a)] \o b[1]>> \o SubSeq(b, 2, Len(b))

NoSelectionNotice == <<"No nodes selected.">>

\* the text built before the layout is rendered
promptHead(m) ==
    << "Create a reusable and performant " \o m.framework
           \o " Component with the following specifications, add it to the"
           \o " existing project or create a new " \o m.framework
           \o " project:",
       "",
       "### Overview:",
       "- **Description**: " \o m.description,
       "- **Type**: A " \o m.framework
           \o " that includes all underlying components and instances.",
       "- **Framework**: " \o m.framework
           \o " (use appropriate syntax for type safety) Typescript if the"
           \o " framework supports it",
       "- **Accessibility**: Ensure all components are accessible by using appropriate ARIA attributes.",
       "- **Performance**: Optimize the code for performance, following the selected framework's best practices.",
       "- **Reusability**: All components and styles must be reusable.",
       "- **Global CSS**: All CSS must be stored in a single global CSS file or theme file." >>
    \o (IF m.database # "" /\ m.database # "null"
        THEN << "- **Database**: Privide the  " \o m.database
                    \o " schema to create the database table. for any input fields.",
                "" >>
        ELSE <<>>)
    \o << "### Layout:",
          "- This layout is created based on the selected nodes from Figma.",
          "" >>

\* the grave accent, which a string literal can hold only when an apostrophe
\* follows it
GraveAccent == SubSeq("`'", 1, 1)

\* the text appended after the layout
promptTail(m) ==
    << "### Implementation:",
       "- Create all underlying components with their different variations.",
       "- Use " \o m.framework
           \o " hooks like " \o GraveAccent \o "useState" \o GraveAccent
           \o " for managing internal state if necessary,"
           \o " particularly for managing hover effects if not using CSS hover.",
       "- Ensure the component uses flexbox for aligning icon and text horizontally (if applicable).",
       "- Use " \o GraveAccent \o "role" \o GraveAccent
           \o " attributes where necessary to define the semantic role of the elements.",
       "- Use " \o GraveAccent \o "aria-label" \o GraveAccent
           \o " to provide descriptive labels for interactive elements.",
       "- Use " \o GraveAccent \o "aria-expanded" \o GraveAccent
           \o " for elements that expand or collapse content.",
       "- Follow the selected framework's coding best practices and standards.",
       "- All styles must be defined in a global CSS file or theme file and applied using CSS classes.",
       "- Swap the text icon with a randomly selected icon.",
       "- Add validation for the input fields.",
       "",
       "### Usage:",
       "- Include the component in your application.",
       "- Use the component as needed in your application.",
       "- Ensure the component is responsive and works on all screen sizes.",
       "- Test the component on different browsers and devices to ensure compatibility.",
       "- Ensure the component is accessible and meets all WCAG standards.",
       "- Ensure the component is performant and does not impact the application's performance.",
       "- Ensure the component is reusable and can be used in different parts of the application.",
       "",
       "" >>

\* the handler testing the converted selection, not the selection, for
\* emptiness
onmessageConvertedEmpty(m) ==
    IF m.type = "generate"
    THEN LET convertedSelection ==
                 IF selNull THEN <<>> ELSE convertIntoNodes(Children(0))
         IN  IF Len(convertedSelection) = 0
             THEN << [type |-> "prompt", prompt |-> NoSelectionNotice] >>
             ELSE << [type |-> "prompt",
                      prompt |-> Concat(Concat(promptHead(m),
                                               Main(convertedSelection)),
                                        promptTail(m))] >>
    ELSE <<>>

\* what figma.ui.onmessage posts for message m: a sequence of UI messages
onmessage(m) ==
    IF m.type = "generate"
    THEN IF selNull \/ Len(Children(0)) = 0
         THEN << [type |-> "prompt", prompt |-> NoSelectionNotice] >>
         ELSE LET convertedSelection == convertIntoNodes(Children(0))
                  prompt == Main(convertedSelection)
              IN  << [type |-> "prompt",
                      prompt |-> Concat(Concat(promptHead(m), prompt),
                                        promptTail(m))] >>
    ELSE <<>>

---------------------------------------------------------------------------
(* The inputs of the model. *)

\* the node types the tree runs draw from: every type the dispatcher has a
\* case for, and BOOLEAN_OPERATION, a type the plugin does not support and
\* one whose nodes have children
TreeTypes ==
    {"RECTANGLE", "ELLIPSE", "TEXT", "LINE", "VECTOR", "GROUP", "FRAME",
     "COMPONENT", "INSTANCE", "COMPONENT_SET", "SECTION", "BOOLEAN_OPERATION"}

\* the types whose nodes have children
ParentTypes ==
    {"GROUP", "FRAME", "COMPONENT", "INSTANCE", "COMPONENT_SET", "SECTION",
     "BOOLEAN_OPERATION"}

Red == [r |-> 1000, g |-> 0, b |-> 0]
Grey == [r |-> 500, g |-> 500, b |-> 500]

\* a node as Figma creates it: named, unit geometry, one solid fill, and for
\* a text two lines of characters, the second starting like a bullet
NewNode(type, visible, parent, name) ==
    [ type |-> type, name |-> name, visible |-> visible, parent |-> parent,
      x |-> 1250, y |-> 0, width |-> 10000, height |-> 5075,
      opacity |-> Num(1000),
      fills |-> List(<<[type |-> "SOLID", color |-> Red, opacity |-> Num(1000)]>>),
      strokes |-> List(<<>>),
      strokeWeight |-> Num(100),
      cornerRadius |-> Num(0),
      effects |-> List(<<>>),
      layoutMode |-> "NONE",
      primaryAxisAlignItems |-> "MIN", counterAxisAlignItems |-> "MIN",
      paddingTop |-> Num(0), paddingRight |-> Num(0),
      paddingBottom |-> Num(0), paddingLeft |-> Num(0),
      characters |-> IF type = "TEXT" THEN <<"Hi", "- there">> ELSE <<"">>,
      fontName |-> Mixed, fontSize |-> Mixed, lineHeight |-> Mixed,
      letterSpacing |-> Mixed, textAlignHorizontal |-> "" ]

Messages ==
    [ type : {"generate"}, framework : {"React"},
      database : {"null", "SQLite"}, description : {"A card"} ]
    \cup
    [ type : {"resize"}, framework : {""}, database : {""},
      description : {""} ]

NoMessage == [type |-> "", framework |-> "", database |-> "", description |-> ""]

NoOutput == [op |-> "", text |-> <<>>]

---------------------------------------------------------------------------
(* The plugin and its host. *)

Init ==
    /\ nodes = <<>>
    /\ selNull = FALSE
    /\ pc = "idle"
    /\ msg = NoMessage
    /\ posted = <<>>
    /\ out = NoOutput

\* the user adds a node to the selection, or under a selected container
AddNode(type, visible, parent) ==
    /\ pc = "idle"
    /\ Len(nodes) < MaxNodes
    /\ IF parent = 0 THEN TRUE ELSE nodes[parent].type \in ParentTypes
    /\ nodes' = Append(nodes, NewNode(type, visible, parent,
                                      "n" \o ToString(Len(nodes) + 1)))
    /\ selNull' = FALSE
    /\ UNCHANGED <<pc, msg, posted, out>>

\* the user clears the selection
ClearSelection ==
    /\ pc = "idle"
    /\ nodes # <<>>
    /\ nodes' = <<>>
    /\ selNull' = FALSE
    /\ UNCHANGED <<pc, msg, posted, out>>

\* the host has no selection to give
LoseSelection ==
    /\ pc = "idle"
    /\ ~selNull
    /\ nodes' = <<>>
    /\ selNull' = TRUE
    /\ UNCHANGED <<pc, msg, posted, out>>

\* figma.ui.onmessage handles message m
OnMessage(m) ==
    /\ pc = "idle"
    /\ msg' = m
    /\ posted' = onmessage(m)
    /\ pc' = "posted"
    /\ UNCHANGED <<nodes, selNull, out>>

\* the UI takes what was posted
UiReceive ==
    /\ pc = "posted"
    /\ pc' = "idle"
    /\ msg' = NoMessage
    /\ posted' = <<>>
    /\ UNCHANGED <<nodes, selNull, out>>

Next ==
    \/ \E type \in TreeTypes, visible \in BOOLEAN, parent \in 0..Len(nodes) :
           AddNode(type, visible, parent)
    \/ ClearSelection
    \/ LoseSelection
    \/ \E m \in Messages : OnMessage(m)
    \/ UiReceive

Spec == Init /\ [][Next]_vars
---------------------------------------------------------------------------
(* Single nodes with varied style, and the operations applied to them. *)

SolidRed == [type |-> "SOLID", color |-> Red, opacity |-> Absent]
SolidGreyHalf == [type |-> "SOLID", color |-> Grey, opacity |-> Num(500)]
SolidRedClear == [type |-> "SOLID", color |-> Red, opacity |-> Num(0)]
Gradient == [type |-> "GRADIENT_LINEAR", opacity |-> Num(1000)]

Paints == {SolidRed, SolidGreyHalf, SolidRedClear, Gradient}

PaintLists == UNION {[1..k -> Paints] : k \in 0..MaxPaints}

\* opacities in thousandths, and no opacity at all
Opacities ==
    {Absent, Num(0), Num(125), Num(145), Num(333), Num(500), Num(575),
     Num(996), Num(1000)}

\* numbers in hundredths
Numbers == (-MaxNum..MaxNum) \cup {1200, 1250, 1234, 99999}

DropShadow ==
    [type |-> "DROP_SHADOW", visible |-> TRUE, offset |-> [x |-> 0, y |-> 400],
     radius |-> 850, color |-> Grey, opacity |-> Absent]
HiddenShadow == [DropShadow EXCEPT !.visible = FALSE]
InnerShadow == [DropShadow EXCEPT !.type = "INNER_SHADOW"]

Base(type) == NewNode(type, TRUE, 0, "")

OpacitySamples ==
    {[Base(t) EXCEPT !.opacity = o] :
        t \in {"RECTANGLE", "ELLIPSE", "TEXT", "LINE"}, o \in Opacities}

PaintSamples ==
    {[Base("RECTANGLE") EXCEPT !.fills = f] :
        f \in {List(l) : l \in PaintLists} \cup {Mixed, Absent}}
    \cup
    {[Base("LINE") EXCEPT !.strokes = f] :
        f \in {List(l) : l \in PaintLists} \cup {Absent}}

NumberSamples == {[Base("VECTOR") EXCEPT !.width = w] : w \in Numbers}

ShapeSamples ==
    {[Base("RECTANGLE") EXCEPT !.name = "Btn", !.effects = e,
                               !.strokeWeight = w, !.cornerRadius = r] :
        e \in {List(<<DropShadow, HiddenShadow, InnerShadow, DropShadow>>),
               Absent},
        w \in {Num(150), Mixed}, r \in {Num(1200), Mixed}}

FrameSamples ==
    {[Base(t) EXCEPT !.layoutMode = m, !.primaryAxisAlignItems = "CENTER",
                     !.paddingTop = Num(800), !.paddingRight = Absent,
                     !.paddingLeft = l] :
        t \in {"FRAME", "COMPONENT", "INSTANCE", "COMPONENT_SET"},
        m \in {"NONE", "HORIZONTAL"}, l \in {Num(1650), Absent}}

TextSamples ==
    {[Base("TEXT") EXCEPT !.characters = c, !.fontName = f, !.fontSize = s,
                          !.lineHeight = h, !.letterSpacing = l,
                          !.textAlignHorizontal = a] :
        c \in {<<"Hello">>, <<"a", "b">>},
        f \in {Mixed, [tag |-> "font", family |-> "Inter", style |-> "Bold"]},
        s \in {Mixed, Num(1600)},
        h \in {Mixed, Num(150),
               [tag |-> "obj", unit |-> "PIXELS", value |-> 2400],
               [tag |-> "obj", unit |-> "AUTO", value |-> 0]},
        l \in {Mixed, Num(50),
               [tag |-> "obj", unit |-> "PERCENT", value |-> 250]},
        a \in {"", "CENTER"}}

OtherSamples ==
    {Base(t) : t \in {"GROUP", "SECTION", "SLICE"}}
    \cup {[Base("RECTANGLE") EXCEPT !.visible = FALSE]}

StyleSamples ==
    OpacitySamples \cup PaintSamples \cup NumberSamples \cup ShapeSamples
        \cup FrameSamples \cup TextSamples \cup OtherSamples

\* a container whose only child is a text with line terminators other than
\* "\n", and white space between them, in its characters
NestedSamples ==
    {<<Base(t), [NewNode("TEXT", TRUE, 1, "") EXCEPT !.characters = c]>> :
        t \in {"GROUP", "FRAME", "SECTION"},
        c \in {<<"a\rb">>, <<"a\r\f\rb">>, <<"a", "\r- b">>}}

StyleInit ==
    /\ nodes \in {<<s>> : s \in StyleSamples} \cup NestedSamples
    /\ selNull = FALSE
    /\ pc = "idle"
    /\ msg = NoMessage
    /\ posted = <<>>
    /\ out = NoOutput

Apply(op, text) ==
    /\ out' = [op |-> op, text |-> text]
    /\ UNCHANGED <<nodes, selNull, pc, msg, posted>>

ApplyWidgetGenerator == Apply("WidgetGenerator", WidgetGenerator(<<1>>))

ApplyGetBackgroundColor ==
    Apply("getBackgroundColor", <<getBackgroundColor(nodes[1])>>)

ApplyGetBorderColor == Apply("getBorderColor", <<getBorderColor(nodes[1])>>)

ApplySliceNum == Apply("sliceNum", <<sliceNum(nodes[1].width)>>)

StyleNext ==
    \/ ApplyWidgetGenerator
    \/ ApplyGetBackgroundColor
    \/ ApplyGetBorderColor
    \/ ApplySliceNum

StyleSpec == StyleInit /\ [][StyleNext]_vars
---------------------------------------------------------------------------
(* Vocabulary of the properties. *)

NodeIds == 1..Len(nodes)

Contains(s, t) ==
    \E i \in 1..(Len(s) - Len(t) + 1) : SubSeq(s, i, i + Len(t) - 1) = t

NonBlank(text) == SelectSeq(text, LAMBDA l : ~IsBlank(l))

IsBullet(line) == StartsWith(Stripped(line), "- ")

\* the kinds whose renderer recurses into the children
RecursingTypes ==
    {"GROUP", "FRAME", "COMPONENT", "INSTANCE", "COMPONENT_SET", "SECTION"}

Supported(n) == nodes[n].type \in SupportedTypes

RECURSIVE AncestorsVisible(_)
\* n is visible and so is every ancestor of n
AncestorsVisible(n) ==
    /\ nodes[n].visible
    /\ IF nodes[n].parent = 0 THEN TRUE ELSE AncestorsVisible(nodes[n].parent)

RECURSIVE Reached(_)
\* n is visible, and every ancestor of n is visible and of a recursing kind
Reached(n) ==
    /\ nodes[n].visible
    /\ IF nodes[n].parent = 0 THEN TRUE
       ELSE /\ nodes[nodes[n].parent].type \in RecursingTypes
            /\ Reached(nodes[n].parent)

RECURSIVE Depth(_)
Depth(n) == IF nodes[n].parent = 0 THEN 0 ELSE 1 + Depth(nodes[n].parent)

RECURSIVE Preorder(_)
\* the reached nodes under the nodes of ids, parents first, in input order
Preorder(ids) ==
    IF ids = <<>> THEN <<>>
    ELSE LET n == Head(ids)
         IN  (IF ~nodes[n].visible THEN <<>>
              ELSE IF nodes[n].type \in RecursingTypes
                   THEN <<n>> \o Preorder(Children(n))
                   ELSE <<n>>)
             \o Preorder(Tail(ids))

Annotation(n) == "(Component Name: " \o nodes[n].name \o ")"

UnknownLine(n) == "Unknown node type: " \o nodes[n].type

\* line is the line that describes node n
Describes(line, n) ==
    IF Supported(n) THEN Contains(line, Annotation(n))
    ELSE Stripped(line) = UnknownLine(n)

\* the text WidgetGenerator returns for the whole selection
Layout == WidgetGenerator(Children(0))

\* The selection does not change while a response waits for the UI, so the
\* properties of Layout are stated of the idle states: every selection the
\* model reaches is the selection of an idle state.

Count(text, P(_)) == Cardinality({i \in 1..Len(text) : P(text[i])})

Max(a, b) == IF a >= b THEN a ELSE b

---------------------------------------------------------------------------
(* C1: an invisible node, and every node reachable only through it,        *)
(* contributes no text to what WidgetGenerator returns: an invisible node  *)
(* renders as the empty string, no line of the layout carries the name of  *)
(* a node that is invisible or lies under an invisible node, and the only  *)
(* "Unknown node type" lines are those of reached nodes.                   *)
InvisibleNodesExcluded ==
    pc = "idle" =>
        LET layout == Layout
        IN  /\ \A n \in NodeIds :
                  /\ ~nodes[n].visible => WidgetGenerator(<<n>>) = <<"">>
                  /\ ~AncestorsVisible(n) =>
                         \A i \in 1..Len(layout) :
                             ~Contains(layout[i], Annotation(n))
            /\ Count(layout, LAMBDA l : Contains(l, "Unknown node type: "))
                   = Cardinality({n \in NodeIds : Reached(n) /\ ~Supported(n)})

\* a visible container holds an invisible container that holds a visible node
InvisibleNodesExcludedWitness ==
    /\ pc = "idle"
    /\ Len(nodes) = 3
    /\ nodes[1].parent = 0 /\ nodes[1].visible /\ nodes[1].type = "SECTION"
    /\ nodes[2].parent = 1 /\ ~nodes[2].visible /\ nodes[2].type = "GROUP"
    /\ nodes[3].parent = 2 /\ nodes[3].visible
    /\ Layout = <<Layout[1], "">>

(* C2: the lines of the layout describe the reached nodes in input order,  *)
(* a container before its children and a subtree before the next sibling.  *)
OrderPreserved ==
    pc = "idle" =>
        LET lines == NonBlank(Layout)
            pre   == Preorder(Children(0))
        IN  /\ Len(lines) = Len(pre)
            /\ \A k \in 1..Len(lines) : Describes(lines[k], pre[k])

\* two visible siblings, the first with a visible child added last
OrderPreservedWitness ==
    /\ pc = "idle"
    /\ Len(nodes) = 3
    /\ nodes[1].parent = 0 /\ nodes[2].parent = 0 /\ nodes[3].parent = 1
    /\ \A n \in NodeIds : nodes[n].visible
    /\ nodes[1].type = "FRAME"
    /\ Preorder(Children(0)) = <<1, 3, 2>>
    /\ Len(NonBlank(Layout)) = 3

(* no top-level line of a posted prompt is an unknown-kind line.           *)
UnknownKindDegrades ==
    /\ pc = "idle" =>
        /\ \A c \in NodeIds :
              (Reached(c) /\ ~Supported(c) /\ nodes[c].parent # 0) =>
                  LET text == renderNode(nodes[c].parent)
                  IN  /\ WidgetGenerator(<<c>>) = <<UnknownLine(c)>>
                      /\ \A s \in NodeIds :
                            (/\ nodes[s].parent = nodes[c].parent
                             /\ nodes[s].visible) =>
                                \E i \in 2..Len(text) :
                                    /\ Describes(text[i], s)
                                    /\ LeadingSpaces(text[i]) = 2
        /\ LET conv == convertIntoNodes(Children(0))
           IN  /\ \A i, j \in 1..Len(conv) : i < j => conv[i] < conv[j]
               /\ {conv[i] : i \in 1..Len(conv)}
                      = {n \in NodeIds : nodes[n].parent = 0 /\ Supported(n)}
    /\ (pc = "posted" /\ msg.type = "generate") =>
           \A i \in 1..Len(posted[1].prompt) :
               ~StartsWith(posted[1].prompt[i], "Unknown node type: ")

\* a selected group holds a node of an unsupported kind and a visible
\* rectangle, and a 'generate' message has been handled
UnknownKindDegradesWitness ==
    /\ Len(nodes) = 3
    /\ pc = "posted" /\ msg.type = "generate"
    /\ nodes[1].parent = 0 /\ nodes[1].type = "GROUP" /\ nodes[1].visible
    /\ nodes[2].parent = 1 /\ nodes[2].type = "BOOLEAN_OPERATION"
    /\ nodes[3].parent = 1 /\ nodes[3].type = "RECTANGLE"
    /\ nodes[2].visible /\ nodes[3].visible
    /\ \E i \in 1..Len(posted[1].prompt) :
           posted[1].prompt[i] = "  Unknown node type: BOOLEAN_OPERATION"

(* C5: handling a 'generate' message posts exactly one response; it is the *)
(* notice "No nodes selected." exactly when the selection is null or       *)
(* empty, and otherwise it is a prompt with the Layout section.            *)
OneResponsePerGenerate ==
    (pc = "posted" /\ msg.type = "generate") =>
        /\ Len(posted) = 1
        /\ posted[1].type = "prompt"
        /\ posted[1].prompt = NoSelectionNotice
               <=> (selNull \/ ~\E n \in NodeIds : nodes[n].parent = 0)
        /\ posted[1].prompt # NoSelectionNotice =>
               \E i \in 1..Len(posted[1].prompt) - 1 :
                   /\ posted[1].prompt[i] = "### Layout:"
                   /\ posted[1].prompt[i + 1] =
                          "- This layout is created based on the selected nodes from Figma."

\* a selection made only of nodes of an unsupported kind is not empty
OneResponsePerGenerateWitness ==
    /\ pc = "posted" /\ msg.type = "generate"
    /\ Len(nodes) = 2
    /\ \A n \in NodeIds : ~Supported(n) /\ nodes[n].parent = 0
    /\ Len(posted) = 1
    /\ posted[1].prompt # NoSelectionNotice

(* C6, as amended: the line of a reached container reports the number of   *)
(* all its children, visible or not; when none of its k children is        *)
(* visible the children block holds no text: it is max(k, 1) empty lines,  *)
(* that is k - 1 newline characters when k >= 2.                           *)
ChildCountIsTotal ==
    pc = "idle" =>
        \A n \in NodeIds :
            (Reached(n) /\ nodes[n].type \in RecursingTypes) =>
                LET k    == Cardinality({c \in NodeIds : nodes[c].parent = n})
                    text == renderNode(n)
                IN  /\ Contains(text[1],
                                " with " \o ToString(k) \o " children, ")
                    /\ (\A c \in NodeIds :
                            nodes[c].parent = n => ~nodes[c].visible)
                           => /\ Len(text) = 1 + Max(k, 1)
                              /\ \A i \in 2..Len(text) : text[i] = ""

\* C6 as stated: with no visible child the children block is the empty
\* string, for every number of children
EmptyBlockWhenAllInvisible ==
    pc = "idle" =>
        \A n \in NodeIds :
            (/\ Reached(n) /\ nodes[n].type \in RecursingTypes
             /\ \A c \in NodeIds : nodes[c].parent = n => ~nodes[c].visible)
                => LET text == renderNode(n) IN text = <<text[1], "">>

\* a group with two children, both invisible
ChildCountIsTotalWitness ==
    /\ pc = "idle"
    /\ Len(nodes) = 3
    /\ nodes[1].parent = 0 /\ nodes[1].visible /\ nodes[1].type = "GROUP"
    /\ nodes[2].parent = 1 /\ ~nodes[2].visible
    /\ nodes[3].parent = 1 /\ ~nodes[3].visible
    /\ Len(renderNode(1)) = 3

(* C10: the line of a reached node at depth d starts with exactly 2 * d    *)
(* spaces, and a blank line of the layout is empty: no spaces are added.   *)
IndentationByDepth ==
    pc = "idle" =>
        LET layout == Layout
            lines  == NonBlank(layout)
            pre    == Preorder(Children(0))
        IN  /\ Len(lines) = Len(pre)
            /\ \A k \in 1..Len(lines) :
                   LeadingSpaces(lines[k]) = 2 * Depth(pre[k])
            /\ \A i \in 1..Len(layout) : IsBlank(layout[i]) => layout[i] = ""

\* three nested containers: the innermost, at depth 2, has an empty block
IndentationByDepthWitness ==
    /\ pc = "idle"
    /\ Len(nodes) = 3
    /\ nodes[2].parent = 1 /\ nodes[3].parent = 2
    /\ \A n \in NodeIds : Reached(n) /\ nodes[n].type \in RecursingTypes
    /\ Len(Layout) = 4
    /\ LeadingSpaces(Layout[3]) = 4
    /\ Layout[4] = ""
---------------------------------------------------------------------------
(* Properties of the formatting of single nodes. *)

HasDecimalPoint(t) == \E i \in 1..Len(t) : CharAt(t, i) = "."

\* the first solid entry of a list of paints
FirstSolid(items) ==
    items[CHOOSE i \in 1..Len(items) :
              /\ items[i].type = "SOLID"
              /\ \A j \in 1..(i - 1) : items[j].type # "SOLID"]

\* the colour the extractors should give for a fill or stroke property:
\* the first solid entry with its own opacity, 1 when it has none
FirstSolidColor(paints) ==
    IF /\ paints.tag = "list"
       /\ \E i \in 1..Len(paints.items) : paints.items[i].type = "SOLID"
    THEN rgbaFromRGB(FirstSolid(paints.items).color,
                     DefaultTo(FirstSolid(paints.items).opacity, 1000))
    ELSE "transparent"

\* C7 as stated: wherever an opacity is displayed, the percent shown is
\* round(opacity * 100), the rounding being that of nearestOpacity, so that
\* opacity 0 shows 0%
OpacityShownIsRounded ==
    (/\ out.op = "WidgetGenerator"
     /\ nodes[1].visible
     /\ nodes[1].type \in {"RECTANGLE", "ELLIPSE", "TEXT", "LINE"}
     /\ nodes[1].opacity.tag = "num") =>
        Contains(out.text[1],
                 "opacity at "
                     \o ToString(nearestOpacity(nodes[1].opacity.val))
                     \o "%")

\* C8 as stated: getBackgroundColor and getBorderColor return the rgba text
\* of the first solid entry of the list with that entry's own opacity (1 when
\* it has none), and "transparent" only when there is no solid entry
ColorIsFirstSolid ==
    /\ out.op = "getBackgroundColor" =>
           out.text[1] = FirstSolidColor(nodes[1].fills)
    /\ out.op = "getBorderColor" =>
           out.text[1] = FirstSolidColor(nodes[1].strokes)

\* C9 as stated: the text never ends in a redundant "0" after the decimal
\* point, so that 12.5 gives "12.5"
SliceNumDropsTrailingZeros ==
    out.op = "sliceNum" =>
        ~(HasDecimalPoint(out.text[1]) /\ EndsWith(out.text[1], "0"))

====
